---- MODULE Spec2Model ----
(***************************************************************************)
(* The sandbox registry of DaytonaSandboxAgent (src/src/agent/             *)
(* daytona_agent.py): the dict _sandbox_state and the four tool methods    *)
(* create_sandbox, configure_sandbox, delete_sandbox and list_sandboxes.   *)
(*                                                                         *)
(* A Python dict is an insertion-ordered mapping.  It is modelled as a     *)
(* sequence of <<key, value>> pairs with distinct keys: assigning to a key *)
(* that is present replaces the value in place, assigning to a new key     *)
(* appends, del removes the pair and keeps the order of the others.        *)
(***************************************************************************)
EXTENDS Integers, Sequences, FiniteSets, TLC

(***************************************************************************)
(* Bounds of the model.                                                    *)
(***************************************************************************)
\* create_sandbox calls, over all agents, in a behaviour of Spec.
MaxCreates == 2
\* create_sandbox calls in a behaviour of SpecDeep (one agent, one payload).
MaxCreatesDeep == 5
\* create_sandbox requests handled in a behaviour of SpecCoder.
MaxCreatesCoder == 2
\* RemoteAgentConnections objects constructed in a behaviour of SpecA2A.
MaxConnections == 3
\* create_sandbox calls begun in a behaviour of SpecRace.
MaxCreatesRace == 2
\* create_sandbox calls in a behaviour of SpecPayload.
MaxCreatesPayload == 2

(***************************************************************************)
(* Inputs.                                                                 *)
(***************************************************************************)
Agents == {"agent1", "agent2"}
\* The dict objects: the default bound to the class attribute, and the copy
\* of it that each instance holds.
Owners == {"class"} \cup Agents

\* dicts of resources, as sets of <<key, value>> (their order is never read)
EmptyDict == {}
SmallResources == {<<"cpu", "1">>, <<"memory", "2Gi">>, <<"disk", "10Gi">>}
\* Optional[Dict]: <<>> is None (the argument omitted), <<d>> is the dict d.
None == <<>>

\* the ids of config.DEFAULT_TEMPLATES
TemplateIds == {"python-dev", "node-dev", "go-dev"}

MediumResources == {<<"cpu", "2">>, <<"memory", "4Gi">>, <<"disk", "20Gi">>}
LargeResources == {<<"cpu", "4">>, <<"memory", "8Gi">>, <<"disk", "40Gi">>}

\* config.DEFAULT_TEMPLATES
DEFAULT_TEMPLATES ==
  << [id |-> "python-dev",
      name |-> "Python Development Environment",
      description |-> "Environment for Python development with common tools and libraries",
      base_image |-> "python:3.9",
      installed_packages |-> <<"pytest", "black", "isort", "mypy", "flake8">>,
      setup_commands |-> <<"pip install -r requirements.txt">>],
     [id |-> "node-dev",
      name |-> "Node.js Development Environment",
      description |-> "Environment for Node.js development with common tools and libraries",
      base_image |-> "node:16",
      installed_packages |-> <<"typescript", "eslint", "prettier", "jest">>,
      setup_commands |-> <<"npm install">>],
     [id |-> "go-dev",
      name |-> "Go Development Environment",
      description |-> "Environment for Go development with common tools and libraries",
      base_image |-> "golang:1.18",
      installed_packages |-> <<>>,
      setup_commands |-> <<"go mod download">>] >>

\* config.DEFAULT_RESOURCE_CONFIGS
DEFAULT_RESOURCE_CONFIGS ==
  << <<"small", SmallResources>>,
     <<"medium", MediumResources>>,
     <<"large", LargeResources>> >>

\* The arguments of create_sandbox that are tried: resources omitted, given as
\* a non-empty dict (with a template id that is not in config.DEFAULT_TEMPLATES)
\* and given as the empty dict.
CreateArgs ==
  << [name |-> "s1", template |-> "python-dev",  resources |-> None],
     [name |-> "s2", template |-> "nonexistent", resources |-> <<SmallResources>>],
     [name |-> "s1", template |-> "python-dev",  resources |-> <<EmptyDict>>] >>

\* request.get(key) of a missing key, and how an f-string prints it
NoneStr == "None"

\* The requests given to handle_coder_request: dicts with some keys missing.
CoderRequests ==
  << [type |-> "create_sandbox", name |-> "django-project",
      template_id |-> "python-dev", resource_size |-> "medium"],
     [type |-> "create_sandbox"],
     [type |-> "create_sandbox", template_id |-> "nonexistent",
      resource_size |-> "small"],
     [type |-> "create_sandbox", template_id |-> "go-dev",
      resource_size |-> "huge"],
     [type |-> "create_sandbox", template_id |-> "nonexistent",
      resource_size |-> "huge"],
     [type |-> "delete_sandbox", sandbox_id |-> "sandbox-1"],
     [type |-> "delete_sandbox", sandbox_id |-> "sandbox-2"],
     [type |-> "delete_sandbox", sandbox_id |-> "sandbox-9"],
     [type |-> "delete_sandbox", sandbox_id |-> ""],
     [type |-> "delete_sandbox"],
     [type |-> "restart_sandbox", sandbox_id |-> "sandbox-1"],
     [name |-> "no-type"] >>

\* the template ids and size labels looked up directly
LookupKeys ==
  {"python-dev", "node-dev", "go-dev", "nonexistent", "small", "medium",
   "large", "huge", ""}

\* the threads that call one agent's tools at the same time
Threads == {"t1", "t2"}

\* the agent ids, messages and task ids given to A2AIntegration
RemoteAgents == {"coder-agent-1", "agent2"}

Messages ==
  {"Hello, agent!",
   "Your sandbox sandbox-1 is ready at https://sandbox-1.example.com"}

\* task_id: Optional[str]; NoneStr stands for None (the argument omitted)
TaskIds == {"task1", "", NoneStr}

\* str(hash(message)): the hash of a str differs from process to process
HashStrings == {"8527323510384519254", "-3148793243392386655"}

\* configuration payloads, each the items() of a dict in iteration order
Configurations ==
  << << <<"memory", "4Gi">> >>,
     << <<"status", "x">>, <<"bogus_field", "y">> >>,
     << <<"name", "renamed">> >>,
     << <<"resources", LargeResources>> >>,
     << <<"id", "sandbox-2">>, <<"url", "https://other.example.com">> >> >>

(***************************************************************************)
(* Python dict operations on a sequence of <<key, value>> pairs.           *)
(***************************************************************************)
Keys(d) == {d[i][1] : i \in 1..Len(d)}

Has(d, k) == k \in Keys(d)

Index(d, k) == CHOOSE i \in 1..Len(d) : d[i][1] = k

GetItem(d, k) == d[Index(d, k)][2]

SetItem(d, k, v) ==
  IF Has(d, k) THEN [d EXCEPT ![Index(d, k)] = <<k, v>>]
  ELSE Append(d, <<k, v>>)

DelItem(d, k) == SelectSeq(d, LAMBDA e : e[1] # k)

Values(d) == [i \in 1..Len(d) |-> d[i][2]]

(***************************************************************************)
(* State.                                                                  *)
(*                                                                         *)
(* _sandbox_state is declared on the class (line 11) with the default {}   *)
(* and no method binds it.  DaytonaSandboxAgent derives from LlmAgent of   *)
(* google.adk (line 8), a pydantic model: an underscore-named class        *)
(* attribute of a pydantic model is a private attribute, and every         *)
(* instance is constructed with its own copy of the declared default.  The *)
(* methods read and write the dict of the instance they are called on;     *)
(* the class default itself is never written.                              *)
(***************************************************************************)
VARIABLES alive,  \* the agents constructed so far
  sandbox_state,   \* owner -> the dict _sandbox_state held by that owner
  ret,             \* the last call: its arguments and its outcome
  created,         \* history: owner -> number of create_sandbox calls on its dict
  deleted,         \* history: owner -> number of delete_sandbox calls that succeeded
  born,            \* history: owner -> {<<key, n>>}: the record under key was
                   \* stored by the n-th create_sandbox call on that dict
  templates,       \* config.DEFAULT_TEMPLATES, a list of dicts
  resource_configs, \* config.DEFAULT_RESOURCE_CONFIGS, a dict of dicts
  connections,     \* A2AIntegration.connections: agent id -> connection object
  next_conn,       \* the RemoteAgentConnections objects constructed so far
  pending,         \* create_sandbox calls between line 52 and line 63
  done,            \* history: the create_sandbox calls of SpecRace that returned
  retired          \* history: per dict, the ids a delete_sandbox has removed

catalog == <<templates, resource_configs>>

registry == <<alive, sandbox_state, created, deleted, born,
              retired>>

a2a == <<connections, next_conn>>

inflight == <<pending, done>>

vars == <<alive, sandbox_state, ret, created, deleted, born,
          retired, catalog, a2a, inflight>>

\* The lookup of a plain class attribute: every instance finds the one dict
\* bound to the class.
StateOf_class(self) == "class"

\* self._sandbox_state: the dict an agent's methods read and write.
StateOf(self) == self

\* f"sandbox-{n}"
SandboxId(n) == "sandbox-" \o ToString(n)

\* f"https://{sandbox_id}.example.com"
Url(sandbox_id) == "https://" \o sandbox_id \o ".example.com"

\* resources or {}
OrEmpty(resources) ==
  IF resources = None \/ resources[1] = EmptyDict THEN EmptyDict ELSE resources[1]

(***************************************************************************)
(* The tool methods, as functions of the dict they act on.  Each yields    *)
(* the dict afterwards, whether the call raised ValueError, and the value  *)
(* returned.                                                               *)
(***************************************************************************)
Raise(state) == [state |-> state, raised |-> TRUE, value |-> "ValueError"]

Return(state, value) == [state |-> state, raised |-> FALSE, value |-> value]

\* An id numbered from the current size, without the + 1.
NewSandboxId_from_zero(state) == SandboxId(Len(state))

\* sandbox_id = f"sandbox-{len(self._sandbox_state) + 1}"
NewSandboxId(state) == SandboxId(Len(state) + 1)

\* A slip in the dict literal: the url built from the name, not the id.
SandboxDetails_url_of_name(sandbox_id, name, template, resources) ==
  [id        |-> sandbox_id,
   name      |-> name,
   template  |-> template,
   resources |-> OrEmpty(resources),
   status    |-> "creating",
   url       |-> Url(name)]

\* the dict literal sandbox_details
SandboxDetails(sandbox_id, name, template, resources) ==
  [id        |-> sandbox_id,
   name      |-> name,
   template  |-> template,
   resources |-> OrEmpty(resources),
   status    |-> "creating",
   url       |-> Url(sandbox_id)]

\* A create that validates the template against the catalog.
create_sandbox_validating(state, name, template, resources) ==
  IF template \notin TemplateIds THEN Raise(state)
  ELSE LET sandbox_id == NewSandboxId(state)
           details    == SandboxDetails(sandbox_id, name, template, resources)
       IN  Return(SetItem(state, sandbox_id, details), details)

create_sandbox(state, name, template, resources) ==
  LET sandbox_id      == NewSandboxId(state)
      sandbox_details == SandboxDetails(sandbox_id, name, template, resources)
  IN  Return(SetItem(state, sandbox_id, sandbox_details), sandbox_details)

\* create_sandbox up to line 61: the id is taken from the size of the dict
\* as it is now, and the record is built around it.
create_sandbox_begin(state, name, template, resources) ==
  SandboxDetails(NewSandboxId(state), name, template, resources)

\* A store that takes the id anew from the dict it writes to, as a create
\* that runs under a lock would.
create_sandbox_store_renumbering(state, sandbox_details) ==
  LET sandbox_id == NewSandboxId(state)
      details    == [sandbox_details EXCEPT !["id"]  = sandbox_id,
                                            !["url"] = Url(sandbox_id)]
  IN  Return(SetItem(state, sandbox_id, details), details)

\* create_sandbox from line 63: the record is stored under the id taken at
\* line 52, into the dict as it is by then, and returned.
create_sandbox_store(state, sandbox_details) ==
  Return(SetItem(state, sandbox_details.id, sandbox_details), sandbox_details)

\* A loop that merges like dict.update: unknown keys are added.
RECURSIVE ApplyConfiguration_update(_, _, _)
ApplyConfiguration_update(record, configuration, i) ==
  IF i > Len(configuration) THEN record
  ELSE LET key   == configuration[i][1]
           value == configuration[i][2]
       IN  ApplyConfiguration_update(
             IF key \in DOMAIN record THEN [record EXCEPT ![key] = value]
             ELSE record @@ (key :> value),
             configuration, i + 1)

\* for key, value in configuration.items():
\*     if key in record: record[key] = value
RECURSIVE ApplyConfiguration(_, _, _)
ApplyConfiguration(record, configuration, i) ==
  IF i > Len(configuration) THEN record
  ELSE LET key   == configuration[i][1]
           value == configuration[i][2]
       IN  ApplyConfiguration(
             IF key \in DOMAIN record THEN [record EXCEPT ![key] = value]
             ELSE record,
             configuration, i + 1)

\* A configure that touches the entry before it checks that it exists.
configure_sandbox_setdefault(state, sandbox_id, configuration) ==
  IF ~Has(state, sandbox_id)
  THEN Raise(SetItem(state, sandbox_id, [status |-> "configured"]))
  ELSE LET applied    == ApplyConfiguration(GetItem(state, sandbox_id),
                                            configuration, 1)
           configured == [applied EXCEPT !["status"] = "configured"]
       IN  Return(SetItem(state, sandbox_id, configured), configured)

\* A configure that sets the status before it applies the payload.
configure_sandbox_status_first(state, sandbox_id, configuration) ==
  IF ~Has(state, sandbox_id) THEN Raise(state)
  ELSE LET record     == GetItem(state, sandbox_id)
           configured == ApplyConfiguration(
                           [record EXCEPT !["status"] = "configured"],
                           configuration, 1)
       IN  Return(SetItem(state, sandbox_id, configured), configured)

\* A configure that refuses a record that is configured already.
configure_sandbox_once(state, sandbox_id, configuration) ==
  IF ~Has(state, sandbox_id) THEN Raise(state)
  ELSE IF GetItem(state, sandbox_id).status = "configured" THEN Raise(state)
  ELSE LET applied    == ApplyConfiguration(GetItem(state, sandbox_id),
                                            configuration, 1)
           configured == [applied EXCEPT !["status"] = "configured"]
       IN  Return(SetItem(state, sandbox_id, configured), configured)

\* A configure without line 86: the status is what the payload left.
configure_sandbox_payload_status(state, sandbox_id, configuration) ==
  IF ~Has(state, sandbox_id) THEN Raise(state)
  ELSE LET applied == ApplyConfiguration(GetItem(state, sandbox_id),
                                         configuration, 1)
       IN  Return(SetItem(state, sandbox_id, applied), applied)

configure_sandbox(state, sandbox_id, configuration) ==
  IF ~Has(state, sandbox_id) THEN Raise(state)
  ELSE LET applied    == ApplyConfiguration(GetItem(state, sandbox_id),
                                            configuration, 1)
           configured == [applied EXCEPT !["status"] = "configured"]
       IN  Return(SetItem(state, sandbox_id, configured), configured)

\* A delete that empties the dict (clear() for del).
delete_sandbox_clear(state, sandbox_id) ==
  IF ~Has(state, sandbox_id) THEN Raise(state)
  ELSE Return(<<>>,
              [status  |-> "success",
               message |-> "Sandbox " \o sandbox_id \o " deleted"])

\* A delete that acknowledges without removing the record.
delete_sandbox_keep(state, sandbox_id) ==
  IF ~Has(state, sandbox_id) THEN Raise(state)
  ELSE Return(state,
              [status  |-> "success",
               message |-> "Sandbox " \o sandbox_id \o " deleted"])

delete_sandbox(state, sandbox_id) ==
  IF ~Has(state, sandbox_id) THEN Raise(state)
  ELSE Return(DelItem(state, sandbox_id),
              [status  |-> "success",
               message |-> "Sandbox " \o sandbox_id \o " deleted"])

list_sandboxes(state) == Return(state, Values(state))

(***************************************************************************)
(* The catalog lookups of config.py, as functions of the list or dict they *)
(* read.  value is the message of the ValueError when the call raised.     *)
(***************************************************************************)
RaiseValueError(state, message) ==
  [state |-> state, raised |-> TRUE, value |-> message]

\* A lookup that takes the first template, whatever its id.
get_template_by_id_first(tmpls, template_id) ==
  IF Len(tmpls) > 0 THEN Return(tmpls, tmpls[1])
  ELSE RaiseValueError(tmpls,
         "Template with ID '" \o template_id \o "' not found")

\* for template in DEFAULT_TEMPLATES: if template["id"] == template_id: ...
RECURSIVE FindTemplate(_, _, _)
FindTemplate(tmpls, template_id, i) ==
  IF i > Len(tmpls) THEN 0
  ELSE IF tmpls[i].id = template_id THEN i
  ELSE FindTemplate(tmpls, template_id, i + 1)

get_template_by_id(tmpls, template_id) ==
  LET i == FindTemplate(tmpls, template_id, 1)
  IN  IF i # 0 THEN Return(tmpls, tmpls[i])
      ELSE RaiseValueError(tmpls,
             "Template with ID '" \o template_id \o "' not found")

\* A lookup that answers an unknown size with a new, empty entry
\* (dict.setdefault).
get_resource_config_setdefault(configs, size) ==
  IF ~Has(configs, size) THEN Return(SetItem(configs, size, EmptyDict), EmptyDict)
  ELSE Return(configs, GetItem(configs, size))

get_resource_config(configs, size) ==
  IF ~Has(configs, size)
  THEN RaiseValueError(configs,
         "Resource configuration '" \o size \o "' not found")
  ELSE Return(configs, GetItem(configs, size))

get_all_templates(tmpls) == Return(tmpls, tmpls)

(***************************************************************************)
(* handle_coder_request of examples/coder_communication.py, bound to the   *)
(* agent: a function of the agent's dict, the catalog and the request.     *)
(* The resources dict it passes to create_sandbox is the catalog's own     *)
(* dict object; nothing below writes into a resources dict in place        *)
(* (configure_sandbox rebinds record[key]), so records hold its value.     *)
(***************************************************************************)
\* request.get(key, default)
GetOr(request, key, default) ==
  IF key \in DOMAIN request THEN request[key] ELSE default

\* not sandbox_id
Falsy(x) == x = NoneStr \/ x = ""

Respond(state, tmpls, configs, value) ==
  [state |-> state, templates |-> tmpls, configs |-> configs,
   raised |-> FALSE, value |-> value]

ErrorResponse(message) == [status |-> "error", error |-> message]

\* A handler that notes the template in the resources dict it got from the
\* catalog, which is the catalog's own dict.
handle_create_request_annotate(state, tmpls, configs, request) ==
  LET template_id   == GetOr(request, "template_id", "python-dev")
      resource_size == GetOr(request, "resource_size", "small")
      template      == get_template_by_id(tmpls, template_id)
  IN  IF template.raised
      THEN Respond(state, tmpls, configs, ErrorResponse(template.value))
      ELSE
        LET resources == get_resource_config(configs, resource_size)
        IN  IF resources.raised
            THEN Respond(state, tmpls, configs, ErrorResponse(resources.value))
            ELSE
              LET noted   == resources.value \cup {<<"template", template_id>>}
                  sandbox ==
                    create_sandbox(state,
                                   GetOr(request, "name", "sandbox-" \o template_id),
                                   template_id, <<noted>>)
              IN  Respond(sandbox.state, tmpls,
                          SetItem(configs, resource_size, noted),
                          [status  |-> "success",
                           sandbox |-> sandbox.value,
                           message |-> "Created sandbox " \o sandbox.value.id
                                         \o " with " \o template_id \o " template"])

\* A handler that creates the sandbox before it resolves the resource size.
handle_create_request_create_first(state, tmpls, configs, request) ==
  LET template_id   == GetOr(request, "template_id", "python-dev")
      resource_size == GetOr(request, "resource_size", "small")
      template      == get_template_by_id(tmpls, template_id)
  IN  IF template.raised
      THEN Respond(state, tmpls, configs, ErrorResponse(template.value))
      ELSE
        LET sandbox ==
              create_sandbox(state,
                             GetOr(request, "name", "sandbox-" \o template_id),
                             template_id, None)
            resources == get_resource_config(configs, resource_size)
        IN  IF resources.raised
            THEN Respond(sandbox.state, tmpls, configs,
                         ErrorResponse(resources.value))
            ELSE
              LET details ==
                    [sandbox.value EXCEPT !["resources"] = resources.value]
              IN  Respond(SetItem(sandbox.state, details.id, details),
                          tmpls, configs,
                          [status  |-> "success",
                           sandbox |-> details,
                           message |-> "Created sandbox " \o sandbox.value.id
                                         \o " with " \o template_id \o " template"])

handle_create_request(state, tmpls, configs, request) ==
  LET template_id   == GetOr(request, "template_id", "python-dev")
      resource_size == GetOr(request, "resource_size", "small")
      template      == get_template_by_id(tmpls, template_id)
  IN  IF template.raised
      THEN Respond(state, template.state, configs, ErrorResponse(template.value))
      ELSE
        LET resources == get_resource_config(configs, resource_size)
        IN  IF resources.raised
            THEN Respond(state, template.state, resources.state,
                         ErrorResponse(resources.value))
            ELSE
              LET sandbox ==
                    create_sandbox(state,
                                   GetOr(request, "name", "sandbox-" \o template_id),
                                   template_id, <<resources.value>>)
              IN  IF sandbox.raised
                  THEN Respond(sandbox.state, template.state, resources.state,
                               ErrorResponse(sandbox.value))
                  ELSE Respond(sandbox.state, template.state, resources.state,
                         [status  |-> "success",
                          sandbox |-> sandbox.value,
                          message |-> "Created sandbox " \o sandbox.value.id
                                        \o " with " \o template_id \o " template"])

handle_delete_request(state, tmpls, configs, request) ==
  LET sandbox_id == GetOr(request, "sandbox_id", NoneStr)
  IN  IF Falsy(sandbox_id)
      THEN Respond(state, tmpls, configs, ErrorResponse("sandbox_id is required"))
      ELSE
        LET result == delete_sandbox(state, sandbox_id)
        IN  IF result.raised
            THEN Respond(result.state, tmpls, configs,
                         ErrorResponse("Sandbox " \o sandbox_id \o " not found"))
            ELSE Respond(result.state, tmpls, configs,
                         [status  |-> "success",
                          message |-> "Deleted sandbox " \o sandbox_id])

handle_coder_request(state, tmpls, configs, request) ==
  LET request_type == GetOr(request, "type", NoneStr)
  IN  IF request_type = "create_sandbox"
      THEN handle_create_request(state, tmpls, configs, request)
      ELSE IF request_type = "delete_sandbox"
      THEN handle_delete_request(state, tmpls, configs, request)
      ELSE Respond(state, tmpls, configs,
                   ErrorResponse("Unknown request type: " \o request_type))

(***************************************************************************)
(* A2AIntegration of a2a_integration.py, as functions of the connections   *)
(* dict.  A connection is the fallback RemoteAgentConnections the module   *)
(* defines: the agent id it was made for, and obj, which tells one         *)
(* constructed object from another.                                        *)
(***************************************************************************)
\* RemoteAgentConnections(agent_id, self.client)
RemoteAgentConnections(agent_id, obj) == [agent_id |-> agent_id, obj |-> obj]

\* s[:n]
Prefix(s, n) == IF Len(s) > n THEN SubSeq(s, 1, n) ELSE s

\* RemoteAgentConnections.send_message
connection_send_message(connection, message, task_id) ==
  [status    |-> "success",
   task_id   |-> task_id,
   agent_id  |-> connection.agent_id,
   response  |-> "Received message: " \o Prefix(message, 50) \o "...",
   timestamp |-> "2023-04-09T12:00:00Z"]

\* A connect that keeps a connection already stored (dict.setdefault).
connect_to_agent_setdefault(conns, agent_id, obj) ==
  LET connection == RemoteAgentConnections(agent_id, obj)
  IN  Return(IF Has(conns, agent_id) THEN conns
             ELSE SetItem(conns, agent_id, connection), connection)

connect_to_agent(conns, agent_id, obj) ==
  LET connection == RemoteAgentConnections(agent_id, obj)
  IN  Return(SetItem(conns, agent_id, connection), connection)

\* A disconnect without the membership test: del raises KeyError.
disconnect_from_agent_del(conns, agent_id) ==
  IF Has(conns, agent_id) THEN Return(DelItem(conns, agent_id), NoneStr)
  ELSE [state |-> conns, raised |-> TRUE, value |-> "KeyError"]

disconnect_from_agent(conns, agent_id) ==
  IF Has(conns, agent_id) THEN Return(DelItem(conns, agent_id), NoneStr)
  ELSE Return(conns, NoneStr)

\* task_id = "task-" + str(hash(message))[:8]
GeneratedTaskId(hashed) == "task-" \o Prefix(hashed, 8)

Sent(conns, connection, message, task_id, connected) ==
  [state     |-> conns,
   raised    |-> FALSE,
   value     |-> connection_send_message(connection, message, task_id),
   connected |-> connected,
   calls     |-> << [connection |-> connection, message |-> message,
                     task_id |-> task_id] >>]

\* A send that connects every time, also when a connection is stored.
send_message_reconnect(conns, agent_id, message, task_id, obj, hashed) ==
  LET connected == connect_to_agent(conns, agent_id, obj)
  IN  Sent(connected.state, connected.value, message,
           IF Falsy(task_id) THEN GeneratedTaskId(hashed) ELSE task_id, TRUE)

\* obj is the object a connect would construct, hashed is str(hash(message));
\* connected tells whether the call constructed a connection.
send_message(conns, agent_id, message, task_id, obj, hashed) ==
  LET fresh      == ~Has(conns, agent_id)
      connected  == IF fresh THEN connect_to_agent(conns, agent_id, obj)
                    ELSE Return(conns, GetItem(conns, agent_id))
      sent_as    == IF Falsy(task_id) THEN GeneratedTaskId(hashed) ELSE task_id
  IN  Sent(connected.state, connected.value, message, sent_as, fresh)

\* A2AClient.list_agents of the fallback client
list_available_agents(conns) ==
  Return(conns,
         [agents |-> << [id |-> "coder-agent", name |-> "Coder Agent",
                         type |-> "development",
                         capabilities |-> <<"code-generation", "code-review">>] >>])

(***************************************************************************)
(* History kept beside the dict: which create stored the record of a key.  *)
(***************************************************************************)
Forget(b, k) == {e \in b : e[1] # k}

BornAt(b, k) == (CHOOSE e \in b : e[1] = k)[2]

RECURSIVE Sum(_, _)
Sum(f, S) ==
  IF S = {} THEN 0
  ELSE LET x == CHOOSE y \in S : TRUE IN f[x] + Sum(f, S \ {x})

TotalCreated == Sum(created, Owners)

(***************************************************************************)
(* Initial state: the class is defined, no agent is constructed yet.       *)
(***************************************************************************)
NoCall == [op |-> "none", self |-> "none", raised |-> FALSE, value |-> <<>>]

Init ==
  /\ alive = {}
  /\ sandbox_state = [o \in Owners |-> <<>>]
  /\ ret = NoCall
  /\ created = [o \in Owners |-> 0]
  /\ deleted = [o \in Owners |-> 0]
  /\ born = [o \in Owners |-> {}]
  /\ retired = [o \in Owners |-> {}]
  /\ templates = DEFAULT_TEMPLATES
  /\ resource_configs = DEFAULT_RESOURCE_CONFIGS
  /\ connections = <<>>
  /\ next_conn = 0
  /\ pending = {}
  /\ done = {}

(***************************************************************************)
(* Actions: one per call.                                                  *)
(***************************************************************************)
\* DaytonaSandboxAgent(...): __init__ assigns no _sandbox_state itself;
\* super().__init__ (line 35) gives the instance a copy of the class default.
Construct(self) ==
  /\ self \notin alive
  /\ alive' = alive \cup {self}
  /\ sandbox_state' =
       [sandbox_state EXCEPT ![self] = sandbox_state["class"]]
  /\ ret' = [op |-> "__init__", self |-> self, raised |-> FALSE, value |-> <<>>]
  /\ UNCHANGED <<created, deleted, born, retired, catalog, a2a, inflight>>

Create(self, name, template, resources) ==
  LET o   == StateOf(self)
      out == create_sandbox(sandbox_state[o], name, template, resources)
  IN  /\ self \in alive
      /\ sandbox_state' = [sandbox_state EXCEPT ![o] = out.state]
      /\ ret' = [op |-> "create_sandbox", self |-> self, name |-> name,
                 template |-> template, resources |-> resources,
                 raised |-> out.raised, value |-> out.value]
      /\ created' = [created EXCEPT ![o] = @ + 1]
      /\ born' = IF out.raised THEN born
                 ELSE [born EXCEPT ![o] = Forget(@, out.value.id)
                                            \cup {<<out.value.id, created[o] + 1>>}]
      /\ UNCHANGED <<alive, deleted, retired, catalog, a2a, inflight>>

Configure(self, sandbox_id, c) ==
  LET o   == StateOf(self)
      out == configure_sandbox(sandbox_state[o], sandbox_id, Configurations[c])
  IN  /\ self \in alive
      /\ sandbox_state' = [sandbox_state EXCEPT ![o] = out.state]
      /\ ret' = [op |-> "configure_sandbox", self |-> self,
                 sandbox_id |-> sandbox_id, configuration |-> c,
                 raised |-> out.raised, value |-> out.value]
      /\ UNCHANGED <<alive, created, deleted, born, retired, catalog, a2a, inflight>>

Delete(self, sandbox_id) ==
  LET o   == StateOf(self)
      out == delete_sandbox(sandbox_state[o], sandbox_id)
  IN  /\ self \in alive
      /\ sandbox_state' = [sandbox_state EXCEPT ![o] = out.state]
      /\ ret' = [op |-> "delete_sandbox", self |-> self,
                 sandbox_id |-> sandbox_id,
                 raised |-> out.raised, value |-> out.value]
      /\ born' = IF out.raised THEN born
                 ELSE [born EXCEPT ![o] = Forget(@, sandbox_id)]
      /\ deleted' = IF out.raised THEN deleted
                    ELSE [deleted EXCEPT ![o] = @ + 1]
      /\ retired' = IF out.raised THEN retired
                    ELSE [retired EXCEPT ![o] = @ \cup {sandbox_id}]
      /\ UNCHANGED <<alive, created, catalog, a2a, inflight>>

List(self) ==
  LET o   == StateOf(self)
      out == list_sandboxes(sandbox_state[o])
  IN  /\ self \in alive
      /\ sandbox_state' = [sandbox_state EXCEPT ![o] = out.state]
      /\ ret' = [op |-> "list_sandboxes", self |-> self,
                 raised |-> out.raised, value |-> out.value]
      /\ UNCHANGED <<alive, created, deleted, born, retired, catalog, a2a, inflight>>

(***************************************************************************)
(* Spec: two agents, every input.                                          *)
(***************************************************************************)
SandboxIds == {SandboxId(n) : n \in 1..MaxCreates}

\* the payloads tried in Spec: the unknown key, the status key, a known field
RegistryPayloads == {1, 2, 3}

NewAgent == \E self \in Agents : Construct(self)

CallCreate ==
  /\ TotalCreated < MaxCreates
  /\ \E self \in Agents, i \in 1..Len(CreateArgs) :
       Create(self, CreateArgs[i].name, CreateArgs[i].template,
              CreateArgs[i].resources)

CallConfigure ==
  \E self \in Agents, sandbox_id \in SandboxIds, c \in RegistryPayloads :
    Configure(self, sandbox_id, c)

CallDelete ==
  \E self \in Agents, sandbox_id \in SandboxIds : Delete(self, sandbox_id)

CallList == \E self \in Agents : List(self)

Next == NewAgent \/ CallCreate \/ CallConfigure \/ CallDelete \/ CallList

Spec == Init /\ [][Next]_vars

(***************************************************************************)
(* SpecDeep: the same calls by one agent with one input each, so that      *)
(* longer runs of create and delete are covered.                           *)
(***************************************************************************)
DeepAgent == "agent1"

DeepSandboxIds == {SandboxId(n) : n \in 1..MaxCreatesDeep}

DeepNewAgent == Construct(DeepAgent)

DeepCreate ==
  /\ TotalCreated < MaxCreatesDeep
  /\ Create(DeepAgent, CreateArgs[1].name, CreateArgs[1].template,
            CreateArgs[1].resources)

DeepConfigure == \E sandbox_id \in DeepSandboxIds : Configure(DeepAgent, sandbox_id, 1)

DeepDelete == \E sandbox_id \in DeepSandboxIds : Delete(DeepAgent, sandbox_id)

DeepList == List(DeepAgent)

NextDeep == DeepNewAgent \/ DeepCreate \/ DeepConfigure \/ DeepDelete \/ DeepList

SpecDeep == Init /\ [][NextDeep]_vars

(***************************************************************************)
(* SpecCoder: one agent that serves coder requests, with the catalog       *)
(* lookups and the tool calls beside them.                                 *)
(***************************************************************************)
CoderAgent == "agent1"

GetTemplateById(template_id) ==
  LET out == get_template_by_id(templates, template_id)
  IN  /\ templates' = out.state
      /\ ret' = [op |-> "get_template_by_id", self |-> "none",
                 key |-> template_id, raised |-> out.raised, value |-> out.value]
      /\ UNCHANGED <<alive, sandbox_state, created, deleted, born, retired,
                     resource_configs, a2a, inflight>>

GetResourceConfig(size) ==
  LET out == get_resource_config(resource_configs, size)
  IN  /\ resource_configs' = out.state
      /\ ret' = [op |-> "get_resource_config", self |-> "none",
                 key |-> size, raised |-> out.raised, value |-> out.value]
      /\ UNCHANGED <<alive, sandbox_state, created, deleted, born, retired,
                     templates, a2a, inflight>>

GetAllTemplates ==
  LET out == get_all_templates(templates)
  IN  /\ templates' = out.state
      /\ ret' = [op |-> "get_all_templates", self |-> "none",
                 raised |-> out.raised, value |-> out.value]
      /\ UNCHANGED <<alive, sandbox_state, created, deleted, born, retired,
                     resource_configs, a2a, inflight>>

HandleCoderRequest(self, r) ==
  LET o       == StateOf(self)
      request == CoderRequests[r]
      out     == handle_coder_request(sandbox_state[o], templates,
                                      resource_configs, request)
      type    == GetOr(request, "type", NoneStr)
      ok      == out.value.status = "success"
  IN  /\ self \in alive
      /\ type = "create_sandbox" => TotalCreated < MaxCreatesCoder
      /\ sandbox_state' = [sandbox_state EXCEPT ![o] = out.state]
      /\ templates' = out.templates
      /\ resource_configs' = out.configs
      /\ ret' = [op |-> "handle_coder_request", self |-> self, request |-> r,
                 raised |-> out.raised, value |-> out.value]
      /\ created' = IF ok /\ type = "create_sandbox"
                    THEN [created EXCEPT ![o] = @ + 1] ELSE created
      /\ born' = IF ok /\ type = "create_sandbox"
                 THEN [born EXCEPT ![o] = Forget(@, out.value.sandbox.id)
                        \cup {<<out.value.sandbox.id, created[o] + 1>>}]
                 ELSE IF ok /\ type = "delete_sandbox"
                 THEN [born EXCEPT ![o] = Forget(@, request.sandbox_id)]
                 ELSE born
      /\ deleted' = IF ok /\ type = "delete_sandbox"
                    THEN [deleted EXCEPT ![o] = @ + 1] ELSE deleted
      /\ retired' = IF ok /\ type = "delete_sandbox"
                    THEN [retired EXCEPT ![o] = @ \cup {request.sandbox_id}]
                    ELSE retired
      /\ UNCHANGED <<alive, a2a, inflight>>

CoderNewAgent == Construct(CoderAgent)

CoderLookupTemplate == \E k \in LookupKeys : GetTemplateById(k)

CoderLookupResources == \E k \in LookupKeys : GetResourceConfig(k)

CoderRequest == \E r \in 1..Len(CoderRequests) : HandleCoderRequest(CoderAgent, r)

\* the payloads tried in SpecCoder: those of Spec and the resources dict
CoderPayloads == {1, 2, 3, 4}

CoderConfigure ==
  \E sandbox_id \in SandboxIds, c \in CoderPayloads :
    Configure(CoderAgent, sandbox_id, c)

CoderDelete == \E sandbox_id \in SandboxIds : Delete(CoderAgent, sandbox_id)

CoderList == List(CoderAgent)

NextCoder ==
  \/ CoderNewAgent
  \/ CoderLookupTemplate
  \/ CoderLookupResources
  \/ GetAllTemplates
  \/ CoderRequest
  \/ CoderConfigure
  \/ CoderDelete
  \/ CoderList

SpecCoder == Init /\ [][NextCoder]_vars

(***************************************************************************)
(* SpecPayload: one agent, configured with every payload of                *)
(* Configurations, the one that names id and url among them.               *)
(***************************************************************************)
PayloadAgent == "agent1"

PayloadNewAgent == Construct(PayloadAgent)

PayloadCreate ==
  /\ TotalCreated < MaxCreatesPayload
  /\ Create(PayloadAgent, CreateArgs[1].name, CreateArgs[1].template,
            CreateArgs[1].resources)

PayloadConfigure ==
  \E sandbox_id \in SandboxIds, c \in 1..Len(Configurations) :
    Configure(PayloadAgent, sandbox_id, c)

PayloadDelete == \E sandbox_id \in SandboxIds : Delete(PayloadAgent, sandbox_id)

PayloadList == List(PayloadAgent)

NextPayload ==
  PayloadNewAgent \/ PayloadCreate \/ PayloadConfigure \/ PayloadDelete
    \/ PayloadList

SpecPayload == Init /\ [][NextPayload]_vars

(***************************************************************************)
(* SpecRace: two threads call create_sandbox on one agent.  Nothing in the *)
(* class excludes one call from another, so a thread may be switched out   *)
(* between line 52, which reads the size of the dict, and line 63, which   *)
(* stores the record; a call is two steps.                                 *)
(***************************************************************************)
RaceAgent == "agent1"

Begun == Cardinality(pending) + Cardinality(done)

BeginCreate(t, self, a) ==
  LET o == StateOf(self)
  IN  /\ self \in alive
      /\ Begun < MaxCreatesRace
      /\ \A c \in pending : c.thread # t
      /\ pending' = pending \cup
           {[thread |-> t, self |-> self, args |-> a,
             seen |-> Len(sandbox_state[o]),
             sandbox_details |->
               create_sandbox_begin(sandbox_state[o], CreateArgs[a].name,
                                    CreateArgs[a].template,
                                    CreateArgs[a].resources)]}
      /\ UNCHANGED <<registry, ret, catalog, a2a, done>>

FinishCreate(t) ==
  \E c \in pending :
    LET o   == StateOf(c.self)
        out == create_sandbox_store(sandbox_state[o], c.sandbox_details)
    IN  /\ c.thread = t
        /\ sandbox_state' = [sandbox_state EXCEPT ![o] = out.state]
        /\ ret' = [op |-> "create_sandbox", self |-> c.self,
                   name |-> CreateArgs[c.args].name,
                   template |-> CreateArgs[c.args].template,
                   resources |-> CreateArgs[c.args].resources,
                   raised |-> out.raised, value |-> out.value]
        /\ created' = [created EXCEPT ![o] = @ + 1]
        /\ born' = [born EXCEPT ![o] = Forget(@, out.value.id)
                                         \cup {<<out.value.id, created[o] + 1>>}]
        /\ pending' = pending \ {c}
        /\ done' = done \cup {[n |-> Cardinality(done) + 1, thread |-> t,
                               owner |-> o, seen |-> c.seen,
                               value |-> out.value]}
        /\ UNCHANGED <<alive, deleted, retired, catalog, a2a>>

RaceNewAgent == Construct(RaceAgent)

RaceBegin ==
  \E t \in Threads, a \in 1..Len(CreateArgs) : BeginCreate(t, RaceAgent, a)

RaceFinish == \E t \in Threads : FinishCreate(t)

RaceList == List(RaceAgent)

NextRace == RaceNewAgent \/ RaceBegin \/ RaceFinish \/ RaceList

SpecRace == Init /\ [][NextRace]_vars

(***************************************************************************)
(* SpecA2A: the calls on one A2AIntegration.                               *)
(***************************************************************************)
ConnectToAgent(agent_id) ==
  LET out == connect_to_agent(connections, agent_id, next_conn + 1)
  IN  /\ next_conn < MaxConnections
      /\ connections' = out.state
      /\ next_conn' = next_conn + 1
      /\ ret' = [op |-> "connect_to_agent", self |-> "none",
                 agent_id |-> agent_id, raised |-> out.raised,
                 value |-> out.value]
      /\ UNCHANGED <<registry, catalog, inflight>>

DisconnectFromAgent(agent_id) ==
  LET out == disconnect_from_agent(connections, agent_id)
  IN  /\ connections' = out.state
      /\ ret' = [op |-> "disconnect_from_agent", self |-> "none",
                 agent_id |-> agent_id, raised |-> out.raised,
                 value |-> out.value]
      /\ UNCHANGED <<registry, catalog, next_conn, inflight>>

SendMessage(agent_id, message, task_id, hashed) ==
  LET out == send_message(connections, agent_id, message, task_id,
                          next_conn + 1, hashed)
  IN  /\ next_conn < MaxConnections
      /\ connections' = out.state
      /\ next_conn' = IF out.connected THEN next_conn + 1 ELSE next_conn
      /\ ret' = [op |-> "send_message", self |-> "none",
                 agent_id |-> agent_id, message |-> message,
                 task_id |-> task_id, hashed |-> hashed,
                 raised |-> out.raised, value |-> out.value,
                 calls |-> out.calls]
      /\ UNCHANGED <<registry, catalog, inflight>>

ListAvailableAgents ==
  LET out == list_available_agents(connections)
  IN  /\ connections' = out.state
      /\ ret' = [op |-> "list_available_agents", self |-> "none",
                 raised |-> out.raised, value |-> out.value]
      /\ UNCHANGED <<registry, catalog, next_conn, inflight>>

A2AConnect == \E agent_id \in RemoteAgents : ConnectToAgent(agent_id)

A2ADisconnect == \E agent_id \in RemoteAgents : DisconnectFromAgent(agent_id)

A2ASend ==
  \E agent_id \in RemoteAgents, message \in Messages, task_id \in TaskIds,
     hashed \in HashStrings :
    SendMessage(agent_id, message, task_id, hashed)

NextA2A == A2AConnect \/ A2ADisconnect \/ A2ASend \/ ListAvailableAgents

SpecA2A == Init /\ [][NextA2A]_vars

(***************************************************************************)
(* Properties.                                                             *)
(***************************************************************************)
\* the dict the last call acted on, before and after a step
LastState == sandbox_state[StateOf(ret.self)]

Fields == {"id", "name", "template", "resources", "status", "url"}

ConfigKeys(c) == {Configurations[c][i][1] : i \in 1..Len(Configurations[c])}

ConfigValue(c, k) ==
  Configurations[c][CHOOSE i \in 1..Len(Configurations[c]) :
                      Configurations[c][i][1] = k][2]

\* C1: the id that create_sandbox assigns is not a key already present in
\* the registry, so create never overwrites an existing record.
C1_CreateAllocatesNewId ==
  [][ret'.op = "create_sandbox" =>
       ~Has(sandbox_state[StateOf(ret'.self)], ret'.value.id)]_vars

\* C2: the k-th create_sandbox on one registry returns the id sandbox-k.
C2_KthCreateReturnsSandboxK ==
  ret.op = "create_sandbox" =>
    ret.value.id = SandboxId(created[StateOf(ret.self)])

\* C3: a newly constructed agent lists no sandboxes, and a create, configure
\* or delete by one agent never changes what another agent lists.
C3_RegistryIsPerInstance ==
  [][/\ ret'.op = "__init__" =>
          list_sandboxes(sandbox_state'[StateOf(ret'.self)]).value = <<>>
     /\ ret'.op \in {"create_sandbox", "configure_sandbox", "delete_sandbox"} =>
          \A other \in alive \ {ret'.self} :
            list_sandboxes(sandbox_state'[StateOf(other)]).value
              = list_sandboxes(sandbox_state[StateOf(other)]).value]_vars

\* an agent that has created nothing lists nothing while another agent
\* holds two records
C3_Witness ==
  /\ ret.op = "list_sandboxes"
  /\ ret.value = <<>>
  /\ \E other \in alive \ {ret.self} :
       /\ Len(sandbox_state[StateOf(other)]) = 2
       /\ created[StateOf(ret.self)] = 0

\* C4: a configure_sandbox or delete_sandbox that raises the not-found error
\* leaves the registry, and every record in it, as it was before the call.
C4_NotFoundLeavesRegistryUnchanged ==
  [][ret'.raised =>
       /\ ret'.op \in {"configure_sandbox", "delete_sandbox"}
       /\ ~Has(sandbox_state[StateOf(ret'.self)], ret'.sandbox_id)
       /\ sandbox_state' = sandbox_state]_vars

C4_Witness ==
  /\ ret.op = "configure_sandbox"
  /\ ret.raised
  /\ Len(LastState) > 0

\* C5: delete_sandbox on a present id removes exactly that record and returns
\* status "success"; on an absent id it raises; a second delete of the same id
\* directly after a successful one raises.
C5_DeleteRemovesOnceThenFails ==
  [][ret'.op = "delete_sandbox" =>
       LET before == sandbox_state[StateOf(ret'.self)]
           after  == sandbox_state'[StateOf(ret'.self)]
       IN  /\ IF Has(before, ret'.sandbox_id)
              THEN /\ ~ret'.raised
                   /\ ret'.value.status = "success"
                   /\ ~Has(after, ret'.sandbox_id)
                   /\ after = DelItem(before, ret'.sandbox_id)
              ELSE ret'.raised
           /\ (/\ ret.op = "delete_sandbox"
               /\ ~ret.raised
               /\ StateOf(ret.self) = StateOf(ret'.self)
               /\ ret.sandbox_id = ret'.sandbox_id) => ret'.raised]_vars

C5_Witness ==
  /\ ret.op = "delete_sandbox"
  /\ ~ret.raised
  /\ Len(LastState) > 0
  /\ ~Has(LastState, ret.sandbox_id)

\* C6: a successful configure_sandbox overwrites exactly the fields of the
\* record that the configuration names, ignores every other key, and leaves
\* the record with the six fields it had; fields not named (other than
\* status) keep their values.
C6_ConfigureOverwritesKnownFieldsOnly ==
  [][(ret'.op = "configure_sandbox" /\ ~ret'.raised) =>
       LET old == GetItem(sandbox_state[StateOf(ret'.self)], ret'.sandbox_id)
           new == GetItem(sandbox_state'[StateOf(ret'.self)], ret'.sandbox_id)
           c   == ret'.configuration
       IN  /\ DOMAIN old = Fields
           /\ DOMAIN new = Fields
           /\ \A f \in Fields \ {"status"} :
                new[f] = IF f \in ConfigKeys(c) THEN ConfigValue(c, f)
                         ELSE old[f]]_vars

C6_Witness ==
  /\ ret.op = "configure_sandbox"
  /\ ~ret.raised
  /\ "bogus_field" \in ConfigKeys(ret.configuration)
  /\ DOMAIN GetItem(LastState, ret.sandbox_id) = Fields

\* C7: every successful configure_sandbox leaves the record's status equal to
\* "configured", also when the payload has a status key, and returns the
\* stored record.
C7_ConfigureSetsStatusConfigured ==
  (ret.op = "configure_sandbox" /\ ~ret.raised) =>
    /\ Has(LastState, ret.sandbox_id)
    /\ GetItem(LastState, ret.sandbox_id).status = "configured"
    /\ ret.value = GetItem(LastState, ret.sandbox_id)

C7_Witness ==
  /\ ret.op = "configure_sandbox"
  /\ ~ret.raised
  /\ "status" \in ConfigKeys(ret.configuration)
  /\ ConfigValue(ret.configuration, "status") # "configured"
  /\ ret.value.status = "configured"

\* C8: create_sandbox returns, and stores under its id, a record with the
\* supplied name and template, status "creating", url https://<id>.example.com
\* and the supplied resources (the empty mapping when omitted); the first
\* create on an empty registry has url https://sandbox-1.example.com.
C8_CreateBuildsRecord ==
  ret.op = "create_sandbox" =>
    LET v == ret.value
    IN  /\ Has(LastState, v.id)
        /\ GetItem(LastState, v.id) = v
        /\ DOMAIN v = Fields
        /\ v.name = ret.name
        /\ v.template = ret.template
        /\ v.status = "creating"
        /\ v.url = "https://" \o v.id \o ".example.com"
        /\ v.resources = IF ret.resources = None THEN {} ELSE ret.resources[1]
        /\ created[StateOf(ret.self)] = 1 =>
             v.url = "https://sandbox-1.example.com"

C8_Witness ==
  /\ ret.op = "create_sandbox"
  /\ ret.resources = <<SmallResources>>
  /\ ret.value.resources = SmallResources
  /\ created[StateOf(ret.self)] = 2

\* C9: create_sandbox raises no error and returns a stored record, in every
\* registry state and for every name and template, also for a template id
\* that is not in the catalog.
C9_CreateAlwaysSucceeds ==
  ret.op = "create_sandbox" =>
    /\ ~ret.raised
    /\ ret.value.template = ret.template
    /\ Has(LastState, ret.value.id)

C9_Witness ==
  /\ ret.op = "create_sandbox"
  /\ ret.template \notin TemplateIds
  /\ ~ret.raised
  /\ Len(LastState) = 2

\* C10: list_sandboxes returns exactly the records in the registry, the
\* earlier-created record first; on a fresh registry it returns the empty
\* sequence.
C10_ListInCreationOrder ==
  ret.op = "list_sandboxes" =>
    LET o == StateOf(ret.self)
    IN  /\ ~ret.raised
        /\ ret.value = Values(sandbox_state[o])
        /\ created[o] = 0 => ret.value = <<>>
        /\ \A i, j \in 1..Len(sandbox_state[o]) :
             i < j => BornAt(born[o], sandbox_state[o][i][1])
                        < BornAt(born[o], sandbox_state[o][j][1])

\* C11: on a registry that started empty and has seen no delete, the n-th
\* create returns sandbox-n, and after n creates the registry holds exactly
\* the n records sandbox-1 .. sandbox-n, in that order.
C11_SequentialCreatesCountUp ==
  \A o \in Owners :
    deleted[o] = 0 =>
      /\ Len(sandbox_state[o]) = created[o]
      /\ \A k \in 1..created[o] :
           /\ sandbox_state[o][k][1] = SandboxId(k)
           /\ sandbox_state[o][k][2].id = SandboxId(k)
      /\ (ret.op = "create_sandbox" /\ StateOf(ret.self) = o) =>
           ret.value.id = SandboxId(created[o])

C11_Witness ==
  /\ ret.op = "create_sandbox"
  /\ deleted[StateOf(ret.self)] = 0
  /\ created[StateOf(ret.self)] = 3
  /\ ret.value.id = "sandbox-3"
  /\ Len(LastState) = 3

\* dicts kept as sets of <<key, value>>
DictKeys(d) == {e[1] : e \in d}

DictGet(d, k) == (CHOOSE e \in d : e[1] = k)[2]

CatalogIds == {templates[i].id : i \in 1..Len(templates)}

\* C12: get_template_by_id(k) returns the template whose id is k for every
\* id of the catalog (python-dev, node-dev, go-dev) and raises the not-found
\* error for every other k; template ids are unique in the catalog.
C12_TemplateLookupByUniqueId ==
  /\ CatalogIds = {"python-dev", "node-dev", "go-dev"}
  /\ \A i, j \in 1..Len(templates) :
       templates[i].id = templates[j].id => i = j
  /\ ret.op = "get_template_by_id" =>
       IF ret.key \in CatalogIds
       THEN /\ ~ret.raised
            /\ ret.value.id = ret.key
            /\ \E i \in 1..Len(templates) : templates[i] = ret.value
       ELSE /\ ret.raised
            /\ ret.value = "Template with ID '" \o ret.key \o "' not found"

C12_Witness ==
  /\ ret.op = "get_template_by_id"
  /\ ret.key = "go-dev"
  /\ ~ret.raised
  /\ ret.value.base_image = "golang:1.18"

\* C13: get_resource_config(size) returns, for small, medium and large, a
\* record whose cpu, memory and disk are present and non-empty, and raises
\* the not-found error for every other label.
C13_ResourceConfigLookup ==
  ret.op = "get_resource_config" =>
    IF ret.key \in {"small", "medium", "large"}
    THEN /\ ~ret.raised
         /\ \A f \in {"cpu", "memory", "disk"} :
              /\ f \in DictKeys(ret.value)
              /\ DictGet(ret.value, f) # ""
    ELSE /\ ret.raised
         /\ ret.value = "Resource configuration '" \o ret.key \o "' not found"

C13_Witness ==
  /\ ret.op = "get_resource_config"
  /\ ret.key = "large"
  /\ ~ret.raised
  /\ DictGet(ret.value, "memory") = "8Gi"

\* C14: no sequence of catalog lookups, coder requests and registry calls
\* changes a template or a resource preset of the catalog.
C14_CatalogIsReadOnly ==
  /\ templates = DEFAULT_TEMPLATES
  /\ resource_configs = DEFAULT_RESOURCE_CONFIGS

\* a record created with the catalog's medium preset has since been given
\* other resources by configure_sandbox
C14_Witness ==
  /\ ret.op = "configure_sandbox"
  /\ ~ret.raised
  /\ "resources" \in ConfigKeys(ret.configuration)
  /\ ret.value.name = "django-project"
  /\ ret.value.resources = LargeResources
  /\ GetItem(resource_configs, "medium") = MediumResources

\* C18: handle_coder_request resolves the template id, then the resource
\* size, then creates: a create request with an unknown template or size, a
\* delete request with a missing or unknown sandbox_id and a request of any
\* other type answer status "error", raise nothing and leave the registry
\* unchanged; only a fully resolved create request adds a record.
C18_CoderRequestResolvesBeforeCreate ==
  [][ret'.op = "handle_coder_request" =>
       LET request  == CoderRequests[ret'.request]
           type     == GetOr(request, "type", NoneStr)
           template == GetOr(request, "template_id", "python-dev")
           size     == GetOr(request, "resource_size", "small")
           id       == GetOr(request, "sandbox_id", NoneStr)
           before   == sandbox_state[StateOf(ret'.self)]
           after    == sandbox_state'[StateOf(ret'.self)]
           response == ret'.value
       IN  /\ ~ret'.raised
           /\ IF /\ type = "create_sandbox"
                 /\ template \in CatalogIds
                 /\ Has(resource_configs, size)
              THEN /\ response.status = "success"
                   /\ response.sandbox.template = template
                   /\ response.sandbox.resources = GetItem(resource_configs, size)
                   /\ response.sandbox.status = "creating"
                   /\ after = SetItem(before, response.sandbox.id, response.sandbox)
              ELSE IF /\ type = "delete_sandbox"
                      /\ "sandbox_id" \in DOMAIN request
                      /\ Has(before, id)
              THEN /\ response.status = "success"
                   /\ after = DelItem(before, id)
              ELSE /\ response.status = "error"
                   /\ sandbox_state' = sandbox_state
           /\ (type = "create_sandbox" /\ template \notin CatalogIds) =>
                response.error = "Template with ID '" \o template \o "' not found"
           /\ Keys(after) \ Keys(before) # {} =>
                /\ type = "create_sandbox"
                /\ template \in CatalogIds
                /\ Has(resource_configs, size)]_vars

C18_Witness ==
  /\ ret.op = "handle_coder_request"
  /\ GetOr(CoderRequests[ret.request], "type", NoneStr) = "create_sandbox"
  /\ GetOr(CoderRequests[ret.request], "resource_size", "small") = "huge"
  /\ GetOr(CoderRequests[ret.request], "template_id", "python-dev") \in CatalogIds
  /\ ret.value.status = "error"
  /\ Len(LastState) = 1


OtherConnectionsKept(agent_id) ==
  /\ Keys(connections') \ {agent_id} = Keys(connections) \ {agent_id}
  /\ \A b \in Keys(connections) \ {agent_id} :
       GetItem(connections', b) = GetItem(connections, b)

\* C15: connect_to_agent(a) leaves a mapped to the connection it returns,
\* whatever the table held: a connection stored for a is replaced by the newly
\* constructed one, the table has one entry per agent id, and the entries of
\* other agents are kept.
C15_ConnectStoresReturnedConnection ==
  [][ret'.op = "connect_to_agent" =>
       /\ ~ret'.raised
       /\ Has(connections', ret'.agent_id)
       /\ GetItem(connections', ret'.agent_id) = ret'.value
       /\ ret'.value.agent_id = ret'.agent_id
       /\ \A i \in 1..Len(connections) : connections[i][2] # ret'.value
       /\ Cardinality(Keys(connections')) = Len(connections')
       /\ OtherConnectionsKept(ret'.agent_id)]_vars

\* a second connect to an agent: its entry, the older one in the dict, holds
\* a connection constructed after the one of the younger entry
C15_Witness ==
  /\ ret.op = "connect_to_agent"
  /\ Len(connections) = 2
  /\ connections[1][1] = ret.agent_id
  /\ connections[1][2] = ret.value
  /\ connections[1][2].obj > connections[2][2].obj

\* C16: disconnect_from_agent(a) leaves a absent from the table and raises
\* nothing; a connected agent's entry is removed, a disconnect of an agent
\* that is not connected leaves the table as it was, and the connections to
\* other agents are kept.
C16_DisconnectRemovesOnlyThatAgent ==
  [][ret'.op = "disconnect_from_agent" =>
       /\ ~ret'.raised
       /\ ~Has(connections', ret'.agent_id)
       /\ ~Has(connections, ret'.agent_id) => connections' = connections
       /\ Has(connections, ret'.agent_id) =>
            Len(connections') = Len(connections) - 1
       /\ OtherConnectionsKept(ret'.agent_id)]_vars

\* a disconnect of an agent that was disconnected just before, with another
\* agent still connected
C16_Witness ==
  /\ ret.op = "disconnect_from_agent"
  /\ ~ret.raised
  /\ ~Has(connections, ret.agent_id)
  /\ Len(connections) = 1
  /\ next_conn = 3

SentOnce(r) ==
  /\ Len(r.calls) = 1
  /\ r.calls[1].message = r.message
  /\ r.value = connection_send_message(r.calls[1].connection, r.message,
                                       r.calls[1].task_id)

SentOverConnection(r, before, after) ==
  /\ ~r.raised
  /\ Has(after, r.agent_id)
  /\ r.calls[1].connection = GetItem(after, r.agent_id)
  /\ r.calls[1].connection.agent_id = r.agent_id
  /\ Has(before, r.agent_id) => after = before
  /\ ~Has(before, r.agent_id) =>
       /\ Len(after) = Len(before) + 1
       /\ \A i \in 1..Len(before) : after[i] = before[i]

\* C17 as the specification states it: send_message sends over the stored or
\* a newly made connection to the agent, and the message and the task_id the
\* caller supplied (any task_id other than None) reach the connection's
\* send_message unchanged, once, and its response is returned.
C17_SendPassesSuppliedTaskId ==
  [][ret'.op = "send_message" =>
       /\ SentOverConnection(ret', connections, connections')
       /\ SentOnce(ret')
       /\ ret'.task_id # NoneStr => ret'.calls[1].task_id = ret'.task_id]_vars

\* C17, amended: as above, but only a non-empty task_id is passed unchanged;
\* with task_id None or "" the connection is given "task-" followed by the
\* first eight characters of str(hash(message)).
C17_SendPassesNonEmptyTaskId ==
  [][ret'.op = "send_message" =>
       /\ SentOverConnection(ret', connections, connections')
       /\ SentOnce(ret')
       /\ ret'.calls[1].task_id =
            IF ret'.task_id \in {NoneStr, ""}
            THEN "task-" \o Prefix(ret'.hashed, 8)
            ELSE ret'.task_id]_vars

\* a send with task_id "" to an agent that an earlier call disconnected:
\* the agent is connected again and the connection got a generated task id
C17_Witness ==
  /\ ret.op = "send_message"
  /\ ret.task_id = ""
  /\ ret.calls[1].task_id = "task--3148793"
  /\ Has(connections, ret.agent_id)
  /\ GetItem(connections, ret.agent_id).obj = 2
  /\ Len(connections) = 1
  /\ Len(ret.message) > 50


FinishedOn(o) == {c \in done : c.owner = o}

Latest(D) == CHOOSE c \in D : \A d \in D : d.n <= c.n

\* C19: create_sandbox calls on one registry that read the same record count,
\* each before the other has stored, are given the same id; the registry
\* holds one record per id handed out, not one per create, and the record
\* under an id is that of the call that stored last.
C19_RacingCreatesShareOneId ==
  \A o \in Owners :
    LET D == FinishedOn(o)
    IN  /\ \A c1, c2 \in D : c1.seen = c2.seen => c1.value.id = c2.value.id
        /\ Len(sandbox_state[o]) = Cardinality({c.value.id : c \in D})
        /\ \A c \in D :
             GetItem(sandbox_state[o], c.value.id) =
               Latest({d \in D : d.value.id = c.value.id}).value

\* two calls by different threads have returned the same id, and the
\* registry holds the record of the second only
C19_Witness ==
  /\ pending = {}
  /\ \E c1, c2 \in done :
       /\ c1.thread # c2.thread
       /\ c1.owner = c2.owner
       /\ c1.n < c2.n
       /\ c1.value.id = c2.value.id
       /\ c1.value.name # c2.value.name
       /\ Len(sandbox_state[c1.owner]) = 1
       /\ sandbox_state[c1.owner][1][2] = c2.value


Statuses == {"creating", "configured"}

\* C20: in every reachable state every stored record has status "creating"
\* or "configured", whatever creates, configures (also with a payload that
\* names a status) and deletes came before.
C20_StatusCreatingOrConfigured ==
  \A o \in Owners :
    \A i \in 1..Len(sandbox_state[o]) :
      sandbox_state[o][i][2].status \in Statuses

\* a configure whose payload names the status "x" has returned, and the
\* registry holds that record as configured beside one still creating
C20_Witness ==
  /\ ret.op = "configure_sandbox"
  /\ ~ret.raised
  /\ "status" \in ConfigKeys(ret.configuration)
  /\ ConfigValue(ret.configuration, "status") \notin Statuses
  /\ GetItem(LastState, ret.sandbox_id).status = "configured"
  /\ \E i \in 1..Len(LastState) : LastState[i][2].status = "creating"


\* C21: in every reachable state the record stored under key k has id k and
\* url "https://k.example.com", whatever payloads were configured.
C21_IdAndUrlMatchKey ==
  \A o \in Owners :
    \A i \in 1..Len(sandbox_state[o]) :
      /\ sandbox_state[o][i][2].id = sandbox_state[o][i][1]
      /\ sandbox_state[o][i][2].url = Url(sandbox_state[o][i][1])

\* C22: an id that a delete_sandbox has removed from a registry is not
\* returned by a later create_sandbox on that registry.
C22_DeletedIdNotReissued ==
  [][(ret'.op = "create_sandbox" /\ ~ret'.raised) =>
       ret'.value.id \notin retired[StateOf(ret'.self)]]_vars

\* C23: list_sandboxes returns as many records as there were create_sandbox
\* calls on the registry, less the delete_sandbox calls that succeeded.
C23_ListCountsCreatesLessDeletes ==
  ret.op = "list_sandboxes" =>
    Len(ret.value) = created[StateOf(ret.self)] - deleted[StateOf(ret.self)]

\* C24: a record that is "configured" under an id is "configured" in the
\* next state too, as long as the id is still a key of the registry.
C24_ConfiguredStaysConfigured ==
  [][\A o \in Owners :
       \A k \in Keys(sandbox_state[o]) \cap Keys(sandbox_state'[o]) :
         GetItem(sandbox_state[o], k).status = "configured" =>
           GetItem(sandbox_state'[o], k).status = "configured"]_vars


OtherRecordsKept(before, after, sandbox_id) ==
  /\ Keys(after) \ {sandbox_id} = Keys(before) \ {sandbox_id}
  /\ \A k \in Keys(before) \ {sandbox_id} : GetItem(after, k) = GetItem(before, k)

\* C25: a configure_sandbox(id, c) or delete_sandbox(id) that succeeds leaves
\* the record under every other id as it was and adds or removes no other
\* key; list_sandboxes leaves the registry as it was.
C25_OtherRecordsUntouched ==
  [][/\ (ret'.op \in {"configure_sandbox", "delete_sandbox"} /\ ~ret'.raised) =>
          /\ OtherRecordsKept(sandbox_state[StateOf(ret'.self)],
                              sandbox_state'[StateOf(ret'.self)],
                              ret'.sandbox_id)
          /\ \A o \in Owners \ {StateOf(ret'.self)} :
               sandbox_state'[o] = sandbox_state[o]
     /\ ret'.op = "list_sandboxes" => sandbox_state' = sandbox_state]_vars

\* a delete has removed one of two records; the one left still carries the
\* name and the status an earlier configure gave it
C25_Witness ==
  /\ ret.op = "delete_sandbox"
  /\ ~ret.raised
  /\ Len(LastState) = 1
  /\ LastState[1][1] # ret.sandbox_id
  /\ LastState[1][2].name = "renamed"
  /\ LastState[1][2].status = "configured"

Twice(state, sandbox_id, configuration) ==
  configure_sandbox(configure_sandbox(state, sandbox_id, configuration).state,
                    sandbox_id, configuration)

\* C26: from every reachable registry, for every stored id and every payload,
\* configure_sandbox applied twice in a row succeeds both times and leaves
\* the registry that one application leaves.
C26_ConfigureIsIdempotent ==
  \A o \in Owners :
    \A sandbox_id \in Keys(sandbox_state[o]) :
      \A c \in 1..Len(Configurations) :
        LET once == configure_sandbox(sandbox_state[o], sandbox_id,
                                       Configurations[c])
        IN  /\ ~once.raised
            /\ ~Twice(sandbox_state[o], sandbox_id, Configurations[c]).raised
            /\ Twice(sandbox_state[o], sandbox_id, Configurations[c]).state
                 = once.state

\* a record that was "creating" has been configured with the payload that
\* names id and url; the same call again would leave this registry
C26_Witness ==
  /\ ret.op = "configure_sandbox"
  /\ ~ret.raised
  /\ "id" \in ConfigKeys(ret.configuration)
  /\ Len(LastState) = 2
  /\ GetItem(LastState, ret.sandbox_id).id # ret.sandbox_id
  /\ \E i \in 1..2 : LastState[i][2].status = "creating"
  /\ ~configure_sandbox(LastState, ret.sandbox_id,
                        Configurations[ret.configuration]).raised
  /\ configure_sandbox(LastState, ret.sandbox_id,
                       Configurations[ret.configuration]).state = LastState

====
